---- MODULE Spec2Model ----
(***************************************************************************)
(* Worry Butler: the voice-generation core.                                *)
(*                                                                         *)
(*   ConciergeAgent.generate_all   one provider call, fence stripping,     *)
(*                                 JSON parse, {...} extraction, one       *)
(*                                 repair call, synthesized fallbacks,     *)
(*                                 validation                              *)
(*   BaseAgent.process_message     the OpenAI / Ollama dispatch            *)
(*   WorryButler.process_worry     the three-agent chain                   *)
(*   create_ace_attorney_dialogue  the courtroom dialogue of src/api.py,   *)
(*                                 with SpriteSelector                     *)
(*                                                                         *)
(* A text is a sequence of atoms.  An atom is a run of characters that no  *)
(* operation of the code splits: one structural character of JSON or of a  *)
(* markdown fence (a quote, a brace, a colon, a comma, a backtick, a       *)
(* blank, a newline), or a word or phrase that holds none of them and      *)
(* neither starts nor ends with a blank.  A keyword of the code's marker   *)
(* lists occurs in a text only as a whole atom, so "m in text" is "some    *)
(* atom, lower-cased, is m".                                               *)
(***************************************************************************)
EXTENDS Integers, Sequences, FiniteSets, TLC

VARIABLES
    user_worry,     \* the worry text of the request
    c_provider,     \* ConciergeAgent.provider
    pc,             \* generate_all: "idle", "repair", "returned", "raised"
    raw,            \* generate_all: the first provider output
    text,           \* generate_all: raw, stripped of blanks and fences
    repaired,       \* generate_all: the repair call's output
    data,           \* generate_all: the record it returns
    path,           \* generate_all: the branch that produced data or the error
    error,          \* generate_all: the exception it raises
    calls,          \* generate_all: process_message invocations so far
    backend_failed, \* some backend call of the request failed
    use_openai,     \* WorryButler.use_openai
    use_ollama,     \* WorryButler.use_ollama
    b_provider,     \* WorryButler.provider
    agent_provider, \* provider of the overthinker, therapist, executive agent
    bpc,            \* process_worry: "start", "overthinker", "therapist", "returned", "raised"
    locals,         \* process_worry: the local variables bound so far
    agent_calls,    \* process_worry: the agent invocations so far, in order
    b_result,       \* process_worry: the dict it returns
    b_partial,      \* process_worry: partial_result, built in the except branch
    b_error,        \* process_worry: the exception it raises
    agent_responses,    \* create_ace_attorney_dialogue: the dict it is given
    overthinker_text,   \* create_ace_attorney_dialogue: str(overthinker_response)
    therapist_text,     \* create_ace_attorney_dialogue: str(therapist_response)
    executive_text,     \* create_ace_attorney_dialogue: str(executive_summary)
    prosecutor_emotion, \* create_ace_attorney_dialogue: local of that name
    defense_emotion,    \* create_ace_attorney_dialogue: local of that name
    judge_emotion,      \* create_ace_attorney_dialogue: local of that name
    dialogue_sequence,  \* create_ace_attorney_dialogue: the list it builds
    dpc,                \* create_ace_attorney_dialogue: "start", "texts",
                        \* "prosecutor", "defense", "returned", "raised"
    d_error,            \* create_ace_attorney_dialogue: the exception it raises
    requests,       \* the process_worry calls in progress on the one WorryButler:
                    \* for each, its frame (worry, place, locals, result)
    entry,          \* the program started: "main" (src/main.py) or "api" (src/api.py)
    spc,            \* start-up: "start", "selected", "constructed", "init_error",
                    \* then "loop" or "exited" (main), "serving" or "no_butler" (api)
    openai_key,     \* start-up: os.getenv("OPENAI_API_KEY")
    choice,         \* main: what the user types at the provider question
    env_model,      \* start-up: the environment's OLLAMA_MODEL
    env_base_url,   \* start-up: the environment's OLLAMA_BASE_URL
    kwargs,         \* start-up: the keyword arguments WorryButler is called with
    s_error         \* start-up: the exception the construction raised

vars == << user_worry, c_provider, pc, raw, text, repaired, data, path, error,
           calls, backend_failed, use_openai, use_ollama, b_provider,
           agent_provider, bpc, locals, agent_calls, b_result, b_partial,
           b_error, agent_responses, overthinker_text, therapist_text,
           executive_text, prosecutor_emotion, defense_emotion, judge_emotion,
           dialogue_sequence, dpc, d_error, requests, entry, spc, openai_key,
           choice, env_model, env_base_url, kwargs, s_error >>

conciergeVars == << c_provider, pc, raw, text, repaired, data, path, error, calls >>

butlerVars == << use_openai, use_ollama, b_provider, agent_provider, bpc,
                 locals, agent_calls, b_result, b_partial, b_error >>

dialogueVars == << agent_responses, overthinker_text, therapist_text,
                   executive_text, prosecutor_emotion, defense_emotion,
                   judge_emotion, dialogue_sequence, dpc, d_error >>

sharedVars == << requests >>

startupVars == << entry, spc, openai_key, choice, env_model, env_base_url,
                  kwargs, s_error >>

(***************************************************************************)
(* Bounds of the model.                                                    *)
(***************************************************************************)
\* Blank atoms put before and after a text, and around a fenced body.
MaxPad == 1

(***************************************************************************)
(* Characters.                                                             *)
(***************************************************************************)
Quote == "<''>"
Tick == "<BT>"
Space == " "
Newline == "<LF>"

\* str.strip() and the JSON scanner skip these.
Whitespace == {Space, Newline}

\* json.loads is strict: a control character inside a string is an error.
ControlChars == {Newline}

\* str.lower() of an atom.
Lower(a) ==
    CASE a = "JSON" -> "json"
      [] a = "I cannot" -> "i cannot"
      [] a = "I can't" -> "i can't"
      [] a = "HURT MYSELF" -> "hurt myself"
      [] a = "Self-Harm" -> "self-harm"
      [] OTHER -> a

Max(S) == CHOOSE x \in S : \A y \in S : y <= x

Min(S) == CHOOSE x \in S : \A y \in S : x <= y

(***************************************************************************)
(* str.lstrip(), str.rstrip(), str.strip(), str.strip("`").                *)
(***************************************************************************)
RECURSIVE lstripSet(_, _)
lstripSet(t, S) ==
    IF t # <<>> /\ Head(t) \in S THEN lstripSet(Tail(t), S) ELSE t

RECURSIVE rstripSet(_, _)
rstripSet(t, S) ==
    IF t # <<>> /\ t[Len(t)] \in S
    THEN rstripSet(SubSeq(t, 1, Len(t) - 1), S)
    ELSE t

lstrip(t) == lstripSet(t, Whitespace)

strip(t) == rstripSet(lstripSet(t, Whitespace), Whitespace)

stripTicks(t) == rstripSet(lstripSet(t, {Tick}), {Tick})

\* text.startswith("```")
startswithFence(t) ==
    Len(t) >= 3 /\ t[1] = Tick /\ t[2] = Tick /\ t[3] = Tick

\* stripped.lstrip().lower().startswith("json")
startswithJson(t) == lstrip(t) # <<>> /\ Lower(Head(lstrip(t))) = "json"

\* The places where "```" starts.
fenceStarts(t) ==
    {i \in 1..(Len(t) - 2) : t[i] = Tick /\ t[i + 1] = Tick /\ t[i + 2] = Tick}

\* Faulty variant: stripped.find("```"), the first fence instead of the last.
findFence(t) == IF fenceStarts(t) = {} THEN 0 ELSE Min(fenceStarts(t))

\* stripped.rfind("```"), 1-based; 0 where Python gives -1.
rfindFence(t) == IF fenceStarts(t) = {} THEN 0 ELSE Max(fenceStarts(t))

\* Lines 90-102 (and 162-167 for the repair output): strip a markdown fence.
StripFence(t) ==
    IF startswithFence(t)
    THEN LET s0 == SubSeq(t, 4, Len(t))
             stripped == IF startswithJson(s0) THEN Tail(lstrip(s0)) ELSE s0
             fence_end == rfindFence(stripped)
         IN  IF fence_end # 0
             THEN strip(SubSeq(stripped, 1, fence_end - 1))
             ELSE strip(stripTicks(stripped))
    ELSE t

(***************************************************************************)
(* json.loads.  A parsed value is [kind, s, m]: kind is "str", "num",      *)
(* "null" or "obj"; s the content of a string or the numeral; m the        *)
(* members of an object, a function from keys to values.                   *)
(***************************************************************************)
JStr(s) == [kind |-> "str", s |-> s, m |-> <<>>]

JNum(a) == [kind |-> "num", s |-> <<a>>, m |-> <<>>]

JNull == [kind |-> "null", s |-> <<>>, m |-> <<>>]

JObj(m) == [kind |-> "obj", s |-> <<>>, m |-> m]

NumberAtoms == {"7"}

ParseFail == [ok |-> FALSE, v |-> JNull, i |-> 0]

ParseOk(v, i) == [ok |-> TRUE, v |-> v, i |-> i]

\* dict[k] = v; a repeated key keeps the last value.
put(acc, k, v) ==
    [y \in (DOMAIN acc) \cup {k} |-> IF y = k THEN v ELSE acc[y]]

RECURSIVE SkipWs(_, _)
SkipWs(t, i) ==
    IF i <= Len(t) /\ t[i] \in Whitespace THEN SkipWs(t, i + 1) ELSE i

\* Faulty variant: the string runs to the last quote of the text.
ScanStringToLastQuote(t, i) ==
    LET closing == {j \in (i + 1)..Len(t) : t[j] = Quote}
    IN  IF closing = {}
        THEN ParseFail
        ELSE ParseOk(JStr(SubSeq(t, i + 1, Max(closing) - 1)), Max(closing) + 1)

\* A string literal starting at the quote t[i].
ScanString(t, i) ==
    LET closing == {j \in (i + 1)..Len(t) : t[j] = Quote}
    IN  IF closing = {}
        THEN ParseFail
        ELSE LET j == Min(closing)
                 c == SubSeq(t, i + 1, j - 1)
             IN  IF \E k \in 1..Len(c) : c[k] \in ControlChars
                 THEN ParseFail
                 ELSE ParseOk(JStr(c), j + 1)

RECURSIVE ParseValue(_, _)
RECURSIVE ParseMembers(_, _, _)

\* A JSON value starting at t[i].
ParseValue(t, i) ==
    IF i > Len(t) THEN ParseFail
    ELSE IF t[i] = Quote THEN ScanString(t, i)
    ELSE IF t[i] = "{"
         THEN LET j == SkipWs(t, i + 1)
              IN  IF j <= Len(t) /\ t[j] = "}"
                  THEN ParseOk(JObj(<<>>), j + 1)
                  ELSE ParseMembers(t, j, <<>>)
    ELSE IF t[i] \in NumberAtoms THEN ParseOk(JNum(t[i]), i + 1)
    ELSE IF t[i] = "null" THEN ParseOk(JNull, i + 1)
    ELSE ParseFail

\* The members of an object, from the key expected at t[i] to the closing brace.
ParseMembers(t, i, acc) ==
    IF i > Len(t) \/ t[i] # Quote THEN ParseFail
    ELSE LET k == ScanString(t, i)
         IN  IF ~k.ok THEN ParseFail
             ELSE LET c == SkipWs(t, k.i)
                  IN  IF c > Len(t) \/ t[c] # ":" THEN ParseFail
                      ELSE LET val == ParseValue(t, SkipWs(t, c + 1))
                           IN  IF ~val.ok THEN ParseFail
                               ELSE LET acc2 == put(acc, k.v.s, val.v)
                                        e == SkipWs(t, val.i)
                                    IN  IF e > Len(t) THEN ParseFail
                                        ELSE IF t[e] = "}"
                                             THEN ParseOk(JObj(acc2), e + 1)
                                        ELSE IF t[e] = ","
                                             THEN ParseMembers(t, SkipWs(t, e + 1), acc2)
                                        ELSE ParseFail

\* json.loads(t): one value, blanks around it, nothing else.
json_loads(t) ==
    LET r == ParseValue(t, SkipWs(t, 1))
    IN  IF r.ok /\ SkipWs(t, r.i) > Len(t)
        THEN [ok |-> TRUE, v |-> r.v]
        ELSE [ok |-> FALSE, v |-> JNull]

(***************************************************************************)
(* re.search(r"\{[\s\S]*\}", text): from the first "{" to the last "}".    *)
(***************************************************************************)
openBraces(t) == {i \in 1..Len(t) : t[i] = "{"}

closeBraces(t) == {i \in 1..Len(t) : t[i] = "}"}

re_search_braces(t) ==
    IF openBraces(t) # {} /\ closeBraces(t) # {}
       /\ Min(openBraces(t)) < Max(closeBraces(t))
    THEN [found |-> TRUE,
          group |-> SubSeq(t, Min(openBraces(t)), Max(closeBraces(t)))]
    ELSE [found |-> FALSE, group |-> <<>>]

(***************************************************************************)
(* Lengths in characters, text[:n] and the error preview.  A text longer   *)
(* than a cut is built of one-character atoms, so a cut falls between two  *)
(* atoms.                                                                  *)
(***************************************************************************)
Ellipsis == "<...>"

AtomLen(a) == IF a \in {Quote, Tick, Newline, Ellipsis} THEN 1 ELSE Len(a)

RECURSIVE charLen(_)
charLen(t) == IF t = <<>> THEN 0 ELSE AtomLen(Head(t)) + charLen(Tail(t))

\* t[:n]
RECURSIVE takeChars(_, _)
takeChars(t, n) ==
    IF t = <<>> \/ AtomLen(Head(t)) > n
    THEN <<>>
    ELSE <<Head(t)>> \o takeChars(Tail(t), n - AtomLen(Head(t)))

PreviewLen == 200

SafeWorryLen == 140

BenignWorryLen == 100

\* Faulty variant: the preview is the whole text.
PreviewWhole(t) == t

\* preview = (text[:200] + "...") if len(text) > 200 else text
Preview(t) ==
    IF charLen(t) > PreviewLen THEN takeChars(t, PreviewLen) \o <<Ellipsis>> ELSE t

(***************************************************************************)
(* The marker lists of generate_all.                                       *)
(***************************************************************************)
refusal_markers ==
    {"i can't", "i cannot", "i won't", "cannot assist", "i'm unable", "i am unable"}

safety_keywords ==
    {"illegal", "unsafe", "self-harm", "self harm", "suicide", "kill myself",
     "end my life", "hurt myself", "dangerous weapons", "violence against"}

user_safety_keywords ==
    {"illegal", "unsafe", "self-harm", "self harm", "suicide", "kill myself",
     "end my life", "hurt myself", "murder", "dangerous weapons",
     "violence against"}

\* any(m in t.lower() for m in markers)
contains_any(t, markers) == \E i \in 1..Len(t) : Lower(t[i]) \in markers

(***************************************************************************)
(* The synthesized bundles.                                                *)
(***************************************************************************)
VoiceKeys == <<"overthinker", "therapist", "executive">>

Bundle(o, t, e) ==
    JObj([k \in {<<"overthinker">>, <<"therapist">>, <<"executive">>} |->
            IF k = <<"overthinker">> THEN JStr(o)
            ELSE IF k = <<"therapist">> THEN JStr(t)
            ELSE JStr(e)])

\* Lines 147-151.
SafeFallback(worry) ==
    Bundle(<<"The prosecution halts - your stated worry ('">>
               \o takeChars(worry, SafeWorryLen)
               \o <<"' ) veers toward danger. Catastrophe would follow; we refuse that path and redirect.">>,
           <<"I'm glad you said something. We won't plan anything harmful. Let's focus on what you need right now given '">>
               \o takeChars(worry, SafeWorryLen)
               \o <<"': slow breaths, a glass of water, and someone you trust. If there's risk to anyone, seek immediate local help.">>,
           <<"Pick one safe, legal step now - breathe, hydrate, and message a supportive contact.">>)

\* Faulty variant: the templates embed the whole worry.
BenignFallbackWholeWorry(worry) ==
    Bundle(<<"OBJECTION! The prosecution presents its case against your peace of mind! Picture this nightmare scenario unfolding before us: ">>
               \o worry
               \o <<" spirals into complete catastrophe! (...) The prosecution rests its case: this worry has the power to consume your entire existence!">>,
           <<"I hear you, and what you're feeling about ">>
               \o worry
               \o <<" makes complete sense. (...) You are capable, worthy, and stronger than you know.">>,
           <<"Take one concrete action today: write down three realistic outcomes for this situation, then choose one small step you can control right now.">>)

\* Lines 184-202.
BenignFallback(worry) ==
    Bundle(<<"OBJECTION! The prosecution presents its case against your peace of mind! Picture this nightmare scenario unfolding before us: ">>
               \o takeChars(worry, BenignWorryLen)
               \o <<" spirals into complete catastrophe! (...) The prosecution rests its case: this worry has the power to consume your entire existence!">>,
           <<"I hear you, and what you're feeling about ">>
               \o takeChars(worry, BenignWorryLen)
               \o <<" makes complete sense. (...) You are capable, worthy, and stronger than you know.">>,
           <<"Take one concrete action today: write down three realistic outcomes for this situation, then choose one small step you can control right now.">>)

(***************************************************************************)
(* Exceptions.                                                             *)
(***************************************************************************)
NoError == [kind |-> "none", what |-> "", field |-> "", preview |-> <<>>, detail |-> <<>>]

\* Lines 118 and 204-206.
ParseError(what, t) ==
    [kind |-> "ValueError", what |-> what, field |-> "", preview |-> Preview(t),
     detail |-> <<>>]

\* Line 211.
FieldError(k) ==
    [kind |-> "ValueError", what |-> "missing or invalid field", field |-> k,
     preview |-> <<>>, detail |-> <<>>]

\* What Python raises for "k not in data" on a number or None, and for
\* data[k] on a str.
TypeError(k) ==
    [kind |-> "TypeError", what |-> "validation", field |-> k, preview |-> <<>>,
     detail |-> <<>>]

\* The backend's exception, re-raised by process_message (line 169).
ProviderError(e) ==
    [kind |-> "ProviderError", what |-> "backend", field |-> "", preview |-> <<>>,
     detail |-> e]

\* str(e): the message an exception carries, as a text.
str_exception(e) ==
    <<e.what>> \o (IF e.field = "" THEN <<>> ELSE <<e.field>>) \o e.detail
        \o e.preview

(***************************************************************************)
(* Lines 208-213: the validation of data.                                  *)
(***************************************************************************)
\* One turn of the loop: the exception it raises for key k, or NoError.
CheckField(d, k) ==
    IF d.kind = "obj"
    THEN IF <<k>> \notin DOMAIN d.m THEN FieldError(k)
         ELSE IF d.m[<<k>>].kind # "str" THEN FieldError(k)
         ELSE NoError
    ELSE IF d.kind = "str"
    THEN IF \E i \in 1..Len(d.s) : d.s[i] = k THEN TypeError(k) ELSE FieldError(k)
    ELSE TypeError(k)

Validate(d) ==
    LET bad == {i \in 1..Len(VoiceKeys) : CheckField(d, VoiceKeys[i]).kind # "none"}
    IN  IF bad = {} THEN NoError ELSE CheckField(d, VoiceKeys[Min(bad)])

(***************************************************************************)
(* BaseAgent.process_message.  A backend response is [ok, body, err]:      *)
(* the completion text, or the exception the backend call raised.          *)
(***************************************************************************)
Apology == "I apologize, but I encountered an error while processing your request: "

\* Lines 171-188.
process_with_openai(resp) ==
    IF resp.ok
    THEN [raised |-> FALSE, text |-> resp.body, error |-> NoError]
    ELSE [raised |-> TRUE, text |-> <<>>, error |-> ProviderError(resp.err)]

\* Lines 190-237: the except branch returns an apology text.
process_with_ollama(resp) ==
    IF resp.ok
    THEN [raised |-> FALSE, text |-> resp.body, error |-> NoError]
    ELSE [raised |-> FALSE, text |-> <<Apology>> \o resp.err, error |-> NoError]

\* Lines 145-169.
process_message(provider, resp) ==
    IF provider = "openai" THEN process_with_openai(resp) ELSE process_with_ollama(resp)

(***************************************************************************)
(* ConciergeAgent.generate_all, from the first output to the repair call   *)
(* (lines 86-159), and from the repair output on (lines 160-206).          *)
(***************************************************************************)
Step(next, d, p, e, t) == [next |-> next, data |-> d, path |-> p, error |-> e, text |-> t]

FirstPass(rawText, worry) ==
    LET t == StripFence(strip(rawText))
        direct == json_loads(t)
        match == re_search_braces(t)
        candidate == json_loads(match.group)
        has_refusal == contains_any(t, refusal_markers)
        has_safety == contains_any(t, safety_keywords)
    IN  IF direct.ok THEN Step("validate", direct.v, "direct", NoError, t)
        ELSE IF match.found
        THEN IF candidate.ok
             THEN Step("validate", candidate.v, "extracted", NoError, t)
             ELSE Step("raise", JNull, "candidate_failed",
                       ParseError("candidate failed", t), t)
        ELSE IF has_refusal /\ has_safety
        THEN Step("validate", SafeFallback(worry), "safe_fallback", NoError, t)
        ELSE Step("repair", JNull, "repair", NoError, t)

\* Faulty variant: a repair output that does not parse is repaired again.
RepairPassRetry(repairedText, t, worry) ==
    LET r == json_loads(StripFence(strip(repairedText)))
    IN  IF r.ok THEN Step("validate", r.v, "repaired", NoError, t)
        ELSE Step("repair", JNull, "repair", NoError, t)

\* Faulty variant: a failed repair always raises, no bundle is synthesized.
RepairPassNeverSynthesizes(repairedText, t, worry) ==
    LET r == json_loads(StripFence(strip(repairedText)))
    IN  IF r.ok THEN Step("validate", r.v, "repaired", NoError, t)
        ELSE Step("raise", JNull, "repair_failed", ParseError("repair failed", t), t)

\* Faulty variant: after a failed repair the bundle is synthesized only for a
\* first output that holds a refusal marker.
RepairPassRaisesWithoutRefusal(repairedText, t, worry) ==
    LET r == json_loads(StripFence(strip(repairedText)))
    IN  IF r.ok THEN Step("validate", r.v, "repaired", NoError, t)
        ELSE IF contains_any(t, refusal_markers)
                /\ ~contains_any(worry, user_safety_keywords)
        THEN Step("validate", BenignFallback(worry), "benign_fallback", NoError, t)
        ELSE Step("raise", JNull, "repair_failed", ParseError("repair failed", t), t)

RepairPass(repairedText, t, worry) ==
    LET rep == StripFence(strip(repairedText))
        r == json_loads(rep)
        user_has_safety == contains_any(worry, user_safety_keywords)
    IN  IF r.ok THEN Step("validate", r.v, "repaired", NoError, t)
        ELSE IF ~user_has_safety
        THEN Step("validate", BenignFallback(worry), "benign_fallback", NoError, t)
        ELSE Step("raise", JNull, "repair_failed", ParseError("repair failed", t), t)

\* Lines 208-213 on the data of a pass: return it or raise.
Finish(s) ==
    IF s.next = "validate" /\ Validate(s.data).kind # "none"
    THEN Step("raise", JNull, s.path, Validate(s.data), s.text)
    ELSE IF s.next = "validate"
    THEN Step("return", s.data, s.path, NoError, s.text)
    ELSE s

(***************************************************************************)
(* The inputs: worries, provider outputs, backend responses.               *)
(***************************************************************************)
Repeat(a, n) == [i \in 1..n |-> a]

Str(c) == <<Quote>> \o c \o <<Quote>>

\* One member, minified or pretty-printed.
Member(k, v, pretty) ==
    IF pretty
    THEN <<Newline, Space, Space>> \o Str(<<k>>) \o <<":", Space>> \o v
    ELSE Str(<<k>>) \o <<":">> \o v

RECURSIVE Members(_, _)
Members(ms, pretty) ==
    IF ms = <<>> THEN <<>>
    ELSE Member(ms[1][1], ms[1][2], pretty)
         \o (IF Len(ms) > 1 THEN <<",">> ELSE <<>>)
         \o Members(Tail(ms), pretty)

\* The text of an object with the members ms, a sequence of <<key, value text>>.
Object(ms, pretty) ==
    <<"{">> \o Members(ms, pretty)
            \o (IF pretty /\ ms # <<>> THEN <<Newline>> ELSE <<>>) \o <<"}">>

\* The provider's voices: an empty one, one holding a brace, one holding a fence.
OverthinkerVals == {<<"a">>, <<>>}

TherapistVals == {<<"b">>, <<"b", "}">>}

ExecutiveVals == {<<"c">>, <<"c", Tick, Tick, Tick>>}

ValidMembers ==
    UNION {{ << <<"overthinker", Str(o)>>, <<"therapist", Str(t)>>, <<"executive", Str(e)>> >>,
             << <<"executive", Str(e)>>, <<"overthinker", Str(o)>>, <<"therapist", Str(t)>> >> } :
           o \in OverthinkerVals, t \in TherapistVals, e \in ExecutiveVals}

\* Valid three-key records, minified and pretty-printed.
ValidRecords == {Object(ms, pretty) : ms \in ValidMembers, pretty \in BOOLEAN}

\* The bundle a valid record's text states.
RECURSIVE BundleOf(_, _)
BundleOf(ms, acc) ==
    IF ms = <<>> THEN JObj(acc)
    ELSE BundleOf(Tail(ms),
                  put(acc, <<ms[1][1]>>, JStr(SubSeq(ms[1][2], 2, Len(ms[1][2]) - 1))))

Abc == << <<"overthinker", Str(<<"a">>)>>, <<"therapist", Str(<<"b">>)>>,
          <<"executive", Str(<<"c">>)>> >>

\* Objects that are no valid three-key record, and malformed ones.
OtherObjects ==
    { Object(SubSeq(Abc, 1, 2), FALSE),
      Object(<<Abc[1], <<"therapist", <<"7">>>>, Abc[3]>>, FALSE),
      Object(<< <<"overthinker", <<"null">>>>, Abc[2], Abc[3]>>, FALSE),
      Object(<<Abc[1], Abc[2], <<"executive", Object(<< <<"x", Str(<<"y">>)>> >>, FALSE)>> >>, FALSE),
      Object(Abc \o << <<"extra", Str(<<"d">>)>> >>, FALSE),
      Object(<<>>, FALSE),
      <<"{">> \o Members(Abc, FALSE),
      <<"{">> \o Member("overthinker", Str(<<"a">>), FALSE)
              \o Member("therapist", Str(<<"b">>), FALSE) \o <<"}">> }

\* JSON whose top level is no object.
NonObjects == { <<"7">>, <<"null">>, Str(<<"a">>), Str(<<"overthinker">>) }

\* Text that holds no JSON.
Prose ==
    { <<"I cannot", Space, "help with that.">>,
      <<"I can't", Space, "assist with", Space, "Self-Harm", ".">>,
      <<"not json at all, no braces">>,
      <<"that sounds", Space, "unsafe">>,
      <<>> }

Bodies == ValidRecords \cup OtherObjects \cup NonObjects \cup Prose

Fence == <<Tick, Tick, Tick>>

FenceTags == {<<>>, <<"json">>, <<"JSON">>, <<"text">>}

Wrapper(kind, pre, post) == [kind |-> kind, pre |-> pre, post |-> post]

\* A fence around the body, with or without a language tag.
FenceWrappers ==
    {Wrapper("fenced", Fence \o Repeat(Space, p) \o tag \o Repeat(Newline, p),
             Repeat(Newline, p) \o Fence) :
        tag \in FenceTags, p \in 0..MaxPad}

Wrappers ==
    {Wrapper("plain", <<>>, <<>>)}
    \cup {Wrapper("padded", Repeat(Space, p), Repeat(Newline, p)) : p \in 1..MaxPad}
    \cup FenceWrappers
    \cup {Wrapper("unclosed", Fence \o <<"json", Newline>>, <<>>),
          Wrapper("prose", <<"Here is the JSON:", Space>>, <<>>),
          Wrapper("prose", <<>>, <<Space, "Hope this helps">>),
          Wrapper("prose", <<>>, <<Space, "note", "}">>),
          Wrapper("prose", <<"I cannot", Space, "do more than this:", Space>>, <<>>)}

Wrap(w, b) == w.pre \o b \o w.post

\* A text longer than the preview.
LongProse == Repeat("xxxxxxxxxx", PreviewLen \div 10 + 1)

\* Long texts: bare, blank-padded, and in braces that hold no JSON.
LongTexts ==
    {LongProse, <<Space>> \o LongProse,
     <<"{", "xxxxxxxxx">> \o LongProse \o <<"}">>}

RawTexts == {Wrap(w, b) : w \in Wrappers, b \in Bodies} \cup LongTexts

RepairWrappers ==
    {Wrapper("plain", <<>>, <<>>),
     Wrapper("fenced", Fence \o <<"json", Newline>>, <<Newline>> \o Fence),
     Wrapper("prose", <<"Here is the JSON:", Space>>, <<Space, "Hope this helps">>)}

RepairBodies ==
    { Object(Abc, FALSE), Object(Abc, TRUE),
      Object(SubSeq(Abc, 1, 2), FALSE),
      <<"7">>,
      <<"I cannot", Space, "help with that.">>,
      <<"not json at all, no braces">> }

RepairTexts == {Wrap(w, b) : w \in RepairWrappers, b \in RepairBodies}

BenignWorry == <<"I'm worried about my presentation tomorrow">>

SafetyWorry == <<"I want to", Space, "HURT MYSELF">>

MurderWorry == <<"this deadline is", Space, "murder">>

\* A worry longer than the prefixes the fallbacks embed.
LongWorry == Repeat("wwwwwwwwww", SafeWorryLen \div 10 + 1)

Worries == {BenignWorry, SafetyWorry, MurderWorry, LongWorry, <<>>}

Providers == {"openai", "ollama"}

BackendErrors == { <<"Connection refused">> }

Response(ok, body, err) == [ok |-> ok, body |-> body, err |-> err]

Failures == {Response(FALSE, <<>>, e) : e \in BackendErrors}

FirstResponses == {Response(TRUE, t, <<>>) : t \in RawTexts} \cup Failures

RepairResponses == {Response(TRUE, t, <<>>) : t \in RepairTexts} \cup Failures

(***************************************************************************)
(* ConciergeAgent.generate_all as a state machine: the call up to its      *)
(* return, its raise or its repair call, then the repair call to the end.  *)
(***************************************************************************)
NoData == JNull

NoResult ==
    [returned |-> FALSE, voices |-> <<>>, workflow_completed |-> FALSE,
     agent_sequence |-> <<>>]

NoPartial == [built |-> FALSE, partial_results |-> <<>>, workflow_completed |-> FALSE]

ButlerIdle ==
    /\ use_openai = FALSE
    /\ use_ollama = FALSE
    /\ b_provider = "none"
    /\ agent_provider = <<>>
    /\ bpc = "off"
    /\ locals = <<>>
    /\ agent_calls = <<>>
    /\ b_result = NoResult
    /\ b_partial = NoPartial
    /\ b_error = NoError

SharedIdle == requests = <<>>

StartupIdle ==
    /\ entry = "none"
    /\ spc = "off"
    /\ openai_key = ""
    /\ choice = ""
    /\ env_model = ""
    /\ env_base_url = ""
    /\ kwargs = <<>>
    /\ s_error = ""

DialogueIdle ==
    /\ agent_responses = <<>>
    /\ overthinker_text = ""
    /\ therapist_text = ""
    /\ executive_text = ""
    /\ prosecutor_emotion = ""
    /\ defense_emotion = ""
    /\ judge_emotion = ""
    /\ dialogue_sequence = <<>>
    /\ dpc = "off"
    /\ d_error = ""

ConciergeInit ==
    /\ user_worry \in Worries
    /\ c_provider \in Providers
    /\ pc = "idle"
    /\ raw = <<>>
    /\ text = <<>>
    /\ repaired = <<>>
    /\ data = NoData
    /\ path = "none"
    /\ error = NoError
    /\ calls = 0
    /\ backend_failed = FALSE

Init == ConciergeInit /\ ButlerIdle /\ DialogueIdle /\ SharedIdle /\ StartupIdle

\* The state after a pass s of generate_all.
Settle(s) ==
    /\ pc' = (IF s.next = "return" THEN "returned"
              ELSE IF s.next = "raise" THEN "raised" ELSE "repair")
    /\ data' = s.data
    /\ path' = s.path
    /\ error' = s.error
    /\ text' = s.text

\* Lines 74-159, and 208-213 when no repair call is made.
GenerateAll ==
    /\ pc = "idle"
    /\ \E resp \in FirstResponses :
          LET pm == process_message(c_provider, resp)
          IN  /\ calls' = calls + 1
              /\ backend_failed' = (backend_failed \/ ~resp.ok)
              /\ raw' = pm.text
              /\ IF pm.raised
                 THEN Settle(Step("raise", NoData, "provider", pm.error, <<>>))
                 ELSE Settle(Finish(FirstPass(pm.text, user_worry)))
    /\ UNCHANGED <<user_worry, c_provider, repaired, butlerVars, dialogueVars,
                   sharedVars, startupVars>>

\* Lines 160-213.
Repair ==
    /\ pc = "repair"
    /\ \E resp \in RepairResponses :
          LET pm == process_message(c_provider, resp)
          IN  /\ calls' = calls + 1
              /\ backend_failed' = (backend_failed \/ ~resp.ok)
              /\ repaired' = pm.text
              /\ IF pm.raised
                 THEN Settle(Step("raise", NoData, "provider", pm.error, text))
                 ELSE Settle(Finish(RepairPass(pm.text, text, user_worry)))
    /\ UNCHANGED <<user_worry, c_provider, raw, butlerVars, dialogueVars,
                   sharedVars, startupVars>>

Next == GenerateAll \/ Repair

Spec == Init /\ [][Next]_vars

(***************************************************************************)
(* WorryButler: construction and process_worry, one agent call per step.   *)
(***************************************************************************)
Agents == <<"overthinker", "therapist", "executive">>

\* The local variable each stage binds, in the order of Agents.
StageVars == <<"overthinker_response", "therapist_response", "executive_summary">>

\* The completions of the three agents' backends.
AgentTexts == { <<"text 1">>, <<"text 2">>, <<>> }

AgentResponses == {Response(TRUE, t, <<>>) : t \in AgentTexts} \cup Failures

ButlerWorries == {BenignWorry, SafetyWorry, <<>>}

\* Faulty variant: the ollama flag takes precedence.
ChooseProviderOllamaFirst(openai, ollama) ==
    IF ollama THEN "ollama" ELSE IF openai THEN "openai" ELSE "ollama"

\* WorryButler.__init__, lines 35-39.
ChooseProvider(openai, ollama) == IF openai THEN "openai" ELSE "ollama"

ConciergeIdle ==
    /\ c_provider = "none"
    /\ pc = "off"
    /\ raw = <<>>
    /\ text = <<>>
    /\ repaired = <<>>
    /\ data = NoData
    /\ path = "none"
    /\ error = NoError
    /\ calls = 0

\* WorryButler.__init__, lines 25-65.
ButlerInit ==
    /\ user_worry \in ButlerWorries
    /\ use_openai \in BOOLEAN
    /\ use_ollama \in BOOLEAN
    /\ b_provider = ChooseProvider(use_openai, use_ollama)
    /\ agent_provider =
          [a \in {Agents[i] : i \in 1..Len(Agents)} |->
              ChooseProvider(use_openai, use_ollama)]
    /\ bpc = "start"
    /\ locals = <<>>
    /\ agent_calls = <<>>
    /\ b_result = NoResult
    /\ b_partial = NoPartial
    /\ b_error = NoError
    /\ backend_failed = FALSE
    /\ ConciergeIdle
    /\ DialogueIdle
    /\ SharedIdle
    /\ StartupIdle

\* Lines 108-118: the dict process_worry returns.
CompileResult(worry, ls) ==
    [returned |-> TRUE,
     voices |-> put(ls, "original_worry", worry),
     workflow_completed |-> TRUE,
     agent_sequence |-> Agents]

\* Lines 123-148: the except branch builds partial_result, then raises an
\* Exception that carries error_msg alone.
WorkflowError(e) ==
    [kind |-> "Exception", what |-> "Error in worry processing workflow: ",
     field |-> e.field, preview |-> e.preview, detail |-> e.detail]

PartialResult(ls) ==
    [built |-> TRUE, partial_results |-> ls, workflow_completed |-> FALSE]

\* Faulty variant: the except branch returns what the stages produced so far.
ExceptReturnsPartial(worry, ls, e) ==
    [bpc |-> "returned",
     result |-> [returned |-> TRUE, voices |-> put(ls, "original_worry", worry),
                 workflow_completed |-> FALSE, agent_sequence |-> <<>>],
     partial |-> PartialResult(ls),
     error |-> NoError]

\* What process_worry leaves when an agent call raises e with the locals ls bound.
Except(worry, ls, e) ==
    [bpc |-> "raised", result |-> NoResult, partial |-> PartialResult(ls),
     error |-> WorkflowError(e)]

\* Faulty variant: a stage that raises is swallowed, its output taken as empty,
\* and the chain goes on.
AgentStepSwallow(a, args, var, after) ==
    \E resp \in AgentResponses :
        LET pm == process_message(agent_provider[a], resp)
            ls == put(locals, var, pm.text)
        IN  /\ agent_calls' = Append(agent_calls, [agent |-> a, args |-> args])
            /\ backend_failed' = (backend_failed \/ ~resp.ok)
            /\ locals' = ls
            /\ bpc' = after
            /\ b_result' = (IF after = "returned"
                            THEN CompileResult(user_worry, ls)
                            ELSE b_result)
            /\ UNCHANGED <<b_partial, b_error>>

\* One agent call of process_worry: agent a, invoked with args, binds the local
\* named var; after it the chain is at the place named after.
AgentStep(a, args, var, after) ==
    \E resp \in AgentResponses :
        LET pm == process_message(agent_provider[a], resp)
            ls == put(locals, var, pm.text)
            ex == Except(user_worry, locals, pm.error)
        IN  /\ agent_calls' = Append(agent_calls, [agent |-> a, args |-> args])
            /\ backend_failed' = (backend_failed \/ ~resp.ok)
            /\ IF pm.raised
               THEN /\ bpc' = ex.bpc
                    /\ b_result' = ex.result
                    /\ b_partial' = ex.partial
                    /\ b_error' = ex.error
                    /\ UNCHANGED locals
               ELSE /\ locals' = ls
                    /\ bpc' = after
                    /\ b_result' = (IF after = "returned"
                                    THEN CompileResult(user_worry, ls)
                                    ELSE b_result)
                    /\ UNCHANGED <<b_partial, b_error>>

\* Line 93.
Overthink ==
    /\ bpc = "start"
    /\ AgentStep("overthinker", <<user_worry>>, "overthinker_response", "overthinker")
    /\ UNCHANGED <<user_worry, use_openai, use_ollama, b_provider, agent_provider,
                   conciergeVars, dialogueVars,
                   sharedVars, startupVars>>

\* Lines 97-99.
Therapize ==
    /\ bpc = "overthinker"
    /\ AgentStep("therapist", <<user_worry, locals["overthinker_response"]>>,
                 "therapist_response", "therapist")
    /\ UNCHANGED <<user_worry, use_openai, use_ollama, b_provider, agent_provider,
                   conciergeVars, dialogueVars,
                   sharedVars, startupVars>>

\* Lines 103-121.
Summarize ==
    /\ bpc = "therapist"
    /\ AgentStep("executive",
                 <<user_worry, locals["overthinker_response"],
                   locals["therapist_response"]>>,
                 "executive_summary", "returned")
    /\ UNCHANGED <<user_worry, use_openai, use_ollama, b_provider, agent_provider,
                   conciergeVars, dialogueVars,
                   sharedVars, startupVars>>

ButlerNext == Overthink \/ Therapize \/ Summarize

SpecButler == ButlerInit /\ [][ButlerNext]_vars

(***************************************************************************)
(* src/api.py: SpriteSelector and create_ace_attorney_dialogue.            *)
(*                                                                         *)
(* The voice texts of this part are strings, character by character:       *)
(* str.lower() maps each character, and "keyword in text" is a search for  *)
(* the keyword's characters at every place of the text.                    *)
(***************************************************************************)
lower_char(c) ==
    CASE c = "A" -> "a" [] c = "B" -> "b" [] c = "C" -> "c" [] c = "D" -> "d"
      [] c = "E" -> "e" [] c = "F" -> "f" [] c = "G" -> "g" [] c = "H" -> "h"
      [] c = "I" -> "i" [] c = "J" -> "j" [] c = "K" -> "k" [] c = "L" -> "l"
      [] c = "M" -> "m" [] c = "N" -> "n" [] c = "O" -> "o" [] c = "P" -> "p"
      [] c = "Q" -> "q" [] c = "R" -> "r" [] c = "S" -> "s" [] c = "T" -> "t"
      [] c = "U" -> "u" [] c = "V" -> "v" [] c = "W" -> "w" [] c = "X" -> "x"
      [] c = "Y" -> "y" [] c = "Z" -> "z" [] OTHER -> c

\* text.lower()
RECURSIVE str_lower(_)
str_lower(s) ==
    IF s = "" THEN ""
    ELSE lower_char(SubSeq(s, 1, 1)) \o str_lower(SubSeq(s, 2, Len(s)))

\* keyword in text
str_in(keyword, s) ==
    \E i \in 0..(Len(s) - Len(keyword)) :
        SubSeq(s, i + 1, i + Len(keyword)) = keyword

\* dict.get(key, default)
dict_get(d, key, default) == IF key \in DOMAIN d THEN d[key] ELSE default

\* Faulty variant: the table has no entry for the prosecutor's default emotion.
prosecutor_sprites_no_dramatic ==
    [angry |-> <<"prosecutor_angry1.gif", "prosecutor_angry2.gif">>,
     smug |-> <<"prosecutor_smug1.gif", "prosecutor_smug2.gif", "prosecutor_smug3.gif">>,
     worried |-> <<"prosecutor_worried1.gif", "prosecutor_worried2.gif">>,
     intense |-> <<"prosecutor_smug1.gif", "prosecutor_smug2.gif">>,
     default |-> <<"prosecutorempty.png">>]

\* Lines 157-164.
prosecutor_sprites ==
    [angry |-> <<"prosecutor_angry1.gif", "prosecutor_angry2.gif">>,
     smug |-> <<"prosecutor_smug1.gif", "prosecutor_smug2.gif", "prosecutor_smug3.gif">>,
     worried |-> <<"prosecutor_worried1.gif", "prosecutor_worried2.gif">>,
     dramatic |-> <<"prosecutor_angry1.gif", "prosecutor_angry2.gif">>,
     intense |-> <<"prosecutor_smug1.gif", "prosecutor_smug2.gif">>,
     default |-> <<"prosecutorempty.png">>]

\* Lines 167-174.
defense_sprites ==
    [calm |-> <<"defense_calm1.gif", "defense_calm2.gif">>,
     cheerful |-> <<"defense_reassuring1.gif", "defense_reassuring2.gif">>,
     reassuring |-> <<"defense_reassuring1.gif", "defense_reassuring2.gif">>,
     confident |-> <<"defense_calm1.gif", "defense_calm2.gif">>,
     gentle |-> <<"defense_reassuring1.gif", "defense_reassuring2.gif">>,
     default |-> <<"defenseempty.png">>]

\* Lines 177-184.
judge_sprites ==
    [neutral |-> <<"judge-normal.gif">>,
     speaking |-> <<"judge-speaking.gif">>,
     serious |-> <<"judge-speaking.gif">>,
     thoughtful |-> <<"judge-normal.gif">>,
     decisive |-> <<"judge-speaking.gif">>,
     default |-> <<"judgestand.png">>]

\* Lines 187-191.
backgrounds ==
    [prosecutor |-> "courtroom_prosecutor_bg.jpg",
     defense |-> "courtroom_defense_bg.jpg",
     judge |-> "courtroom_judge_bg.jpg"]

\* One entry of a role's emotion table.
Emotion(emotion, keywords) == [emotion |-> emotion, keywords |-> keywords]

\* Lines 194-216.  A dict keeps its entries in the order they are written.
emotion_keywords ==
    [prosecutor |->
        << Emotion("angry", <<"horror", "disaster", "catastrophe", "terrible",
                              "awful", "horrible", "worst", "nightmare">>),
           Emotion("smug", <<"obviously", "clearly", "undoubtedly", "certainly",
                             "evidently", "proven", "guilty">>),
           Emotion("worried", <<"perhaps", "maybe", "possibly", "could be",
                                "might", "potential", "risk">>),
           Emotion("dramatic", <<"oh no", "the horror", "unthinkable",
                                 "absolute worst", "shivers", "dramatic">>),
           Emotion("intense", <<"extreme", "severe", "critical", "urgent",
                                "desperate", "catastrophic">>) >>,
     defense |->
        << Emotion("calm", <<"relax", "breathe", "it's okay", "don't worry",
                             "stay calm", "peaceful">>),
           Emotion("cheerful", <<"great", "wonderful", "amazing", "fantastic",
                                 "excellent", "positive", "bright">>),
           Emotion("reassuring", <<"you're safe", "it's normal", "everyone feels",
                                   "understandable", "valid">>),
           Emotion("confident", <<"you can", "you will", "definitely",
                                  "absolutely", "certainly", "assured">>),
           Emotion("gentle", <<"gently", "softly", "kindly", "carefully",
                               "tenderly", "lovingly">>) >>,
     judge |->
        << Emotion("neutral", <<"verdict", "decision", "ruling", "conclusion",
                                "summary", "final">>),
           Emotion("speaking", <<"therefore", "thus", "consequently",
                                 "as a result", "in conclusion">>),
           Emotion("serious", <<"important", "crucial", "essential", "vital",
                                "critical", "significant">>),
           Emotion("thoughtful", <<"consider", "reflect", "think about",
                                   "contemplate", "ponder">>),
           Emotion("decisive", <<"must", "should", "will", "shall", "decide",
                                 "determine">>) >>]

\* Faulty variant: one default for every role.
default_emotion_neutral(character_type) == "neutral"

\* Lines 241-246.
default_emotion(character_type) ==
    IF character_type = "prosecutor" THEN "dramatic"
    ELSE IF character_type = "defense" THEN "calm"
    ELSE "neutral"

\* Faulty variant: the emotion declared last among those with a keyword in
\* the text.
RECURSIVE last_match(_, _, _)
last_match(character_emotions, i, text_lower) ==
    IF i > Len(character_emotions) THEN ""
    ELSE LET keywords == character_emotions[i].keywords
             later == last_match(character_emotions, i + 1, text_lower)
         IN  IF later # "" THEN later
             ELSE IF \E j \in 1..Len(keywords) : str_in(keywords[j], text_lower)
             THEN character_emotions[i].emotion
             ELSE ""

\* Lines 232-235, from the i-th emotion of the table on: the first emotion one
\* of whose keywords is in the text, "" when the loops end without a return.
RECURSIVE first_match(_, _, _)
first_match(character_emotions, i, text_lower) ==
    IF i > Len(character_emotions) THEN ""
    ELSE LET keywords == character_emotions[i].keywords
         IN  IF \E j \in 1..Len(keywords) : str_in(keywords[j], text_lower)
             THEN character_emotions[i].emotion
             ELSE first_match(character_emotions, i + 1, text_lower)

\* Lines 218-246.
analyze_text_emotion(t, character_type) ==
    LET text_lower == str_lower(t)
        character_emotions == dict_get(emotion_keywords, character_type, <<>>)
        found == first_match(character_emotions, 1, text_lower)
    IN  IF found # "" THEN found ELSE default_emotion(character_type)

\* The outcome of a call: the value it returns or the exception it raises.
Returns(v) == [raised |-> FALSE, value |-> v]

Raises(e) == [raised |-> TRUE, value |-> e]

\* sprites[n], n counted from 0.
item(sprites, n) ==
    IF n < Len(sprites) THEN Returns(sprites[n + 1]) ELSE Raises("IndexError")

\* The sprite table select_sprite consults for a role (lines 260-265).
sprites_of(character_type) ==
    IF character_type = "prosecutor" THEN prosecutor_sprites
    ELSE IF character_type = "defense" THEN defense_sprites
    ELSE judge_sprites

\* Faulty variant: the second frame of the sequence.
select_sprite_second_frame(character_type, emotion) ==
    IF character_type \notin {"prosecutor", "defense", "judge"}
    THEN Returns("unknown_character.gif")
    ELSE item(dict_get(sprites_of(character_type), emotion,
                       sprites_of(character_type)["default"]), 1)

\* Lines 248-270.
select_sprite(character_type, emotion) ==
    IF character_type \notin {"prosecutor", "defense", "judge"}
    THEN Returns("unknown_character.gif")
    ELSE item(dict_get(sprites_of(character_type), emotion,
                       sprites_of(character_type)["default"]), 0)

\* Lines 295-305.
select_background(character_type) ==
    dict_get(backgrounds, character_type, "courtroom_default_bg.jpg")

\* A value of the dict given to create_ace_attorney_dialogue: a str, an int
\* or None, with its text.
StrValue(s) == [kind |-> "str", s |-> s]

IntValue(s) == [kind |-> "int", s |-> s]

NoneValue == [kind |-> "None", s |-> ""]

\* str(v), lines 321-323.
py_str(v) == IF v.kind = "None" THEN "None" ELSE v.s

\* agent_responses[key], lines 321-323.
lookup(responses, key) ==
    IF key \in DOMAIN responses THEN Returns(responses[key]) ELSE Raises("KeyError")

\* Faulty variant: the line carries the lower-cased text.
DialogueLineLowered(character, t, sprite, background, description) ==
    [character |-> character, text |-> str_lower(t), sprite |-> sprite,
     background |-> background, description |-> description]

\* Lines 131-136: the fields of a DialogueLine.
DialogueLine(character, t, sprite, background, description) ==
    [character |-> character, text |-> t, sprite |-> sprite,
     background |-> background, description |-> description]

\* Faulty variant: the line is put at the front of the list.
list_prepend(l, x) == <<x>> \o l

\* list.append
list_append(l, x) == Append(l, x)

\* Lines 327-342, 345-361 and 364-378: one role's emotion, sprite and line.
\* The outcome is the line, or the exception of the sprite selection.
RoleLine(character, character_type, t, description) ==
    LET emotion == analyze_text_emotion(t, character_type)
        sprite == select_sprite(character_type, emotion)
    IN  [emotion |-> emotion,
         raised |-> sprite.raised,
         error |-> IF sprite.raised THEN sprite.value ELSE "",
         line |-> DialogueLine(character, t,
                               IF sprite.raised THEN "" ELSE sprite.value,
                               select_background(character_type), description)]

(***************************************************************************)
(* create_ace_attorney_dialogue, one step per role.                        *)
(***************************************************************************)
\* Voice texts: with keywords of one emotion, of several emotions, in upper
\* case, inside a longer word, with no keyword, and empty.
OverthinkerTexts ==
    {"What a NIGHTMARE, maybe.", "Obviously guilty", "Oh no, the horror!",
     "The ABSOLUTE WORST", "It MIGHT be urgent", "I am thinking", ""}

TherapistTexts ==
    {"Just BREATHE, you can do this", "You will be great", "Certainly",
     "It's okay", "Hello there", ""}

ExecutiveTexts ==
    {"Therefore the verdict is final", "You MUST decide",
     "In conclusion, reflect", "Eat mustard", "Court adjourned", ""}

\* The dict WorryButler.process_worry returns, as the endpoint passes it on.
ResponseRecord(o, t, e) ==
    [original_worry |-> StrValue("w"), overthinker_response |-> o,
     therapist_response |-> t, executive_summary |-> e]

StringRecords ==
    {ResponseRecord(StrValue(o), StrValue(t), StrValue(e)) :
        o \in OverthinkerTexts, t \in TherapistTexts, e \in ExecutiveTexts}

\* Dicts with a voice that is no str, and a dict without the summary.
OtherRecords ==
    {ResponseRecord(NoneValue, StrValue("Certainly"), IntValue("7")),
     [original_worry |-> StrValue("w"),
      overthinker_response |-> StrValue("Obviously guilty"),
      therapist_response |-> StrValue("Certainly")]}

DialogueRecords == StringRecords \cup OtherRecords

DialogueInit ==
    /\ agent_responses \in DialogueRecords
    /\ overthinker_text = ""
    /\ therapist_text = ""
    /\ executive_text = ""
    /\ prosecutor_emotion = ""
    /\ defense_emotion = ""
    /\ judge_emotion = ""
    /\ dialogue_sequence = <<>>
    /\ dpc = "start"
    /\ d_error = ""
    /\ user_worry = <<>>
    /\ backend_failed = FALSE
    /\ ConciergeIdle
    /\ ButlerIdle
    /\ SharedIdle
    /\ StartupIdle

\* Lines 317-323.
ConvertTexts ==
    /\ dpc = "start"
    /\ LET o == lookup(agent_responses, "overthinker_response")
           t == lookup(agent_responses, "therapist_response")
           e == lookup(agent_responses, "executive_summary")
       IN  IF o.raised \/ t.raised \/ e.raised
           THEN /\ dpc' = "raised"
                /\ d_error' = "KeyError"
                /\ UNCHANGED <<overthinker_text, therapist_text, executive_text>>
           ELSE /\ dpc' = "texts"
                /\ overthinker_text' = py_str(o.value)
                /\ therapist_text' = py_str(t.value)
                /\ executive_text' = py_str(e.value)
                /\ UNCHANGED d_error
    /\ UNCHANGED <<agent_responses, prosecutor_emotion, defense_emotion,
                   judge_emotion, dialogue_sequence, user_worry, backend_failed,
                   conciergeVars, butlerVars,
                   sharedVars, startupVars>>

\* The end of a role's step: its line is appended, or its exception raised.
AppendRole(r, after) ==
    IF r.raised
    THEN /\ dpc' = "raised"
         /\ d_error' = r.error
         /\ UNCHANGED dialogue_sequence
    ELSE /\ dpc' = after
         /\ dialogue_sequence' = list_append(dialogue_sequence, r.line)
         /\ UNCHANGED d_error

\* Lines 326-342.
ProsecutorLine ==
    /\ dpc = "texts"
    /\ LET r == RoleLine("PROSECUTOR", "prosecutor", overthinker_text,
                         "The prosecutor presents dramatic worst-case scenarios")
       IN  /\ prosecutor_emotion' = r.emotion
           /\ AppendRole(r, "prosecutor")
    /\ UNCHANGED <<agent_responses, overthinker_text, therapist_text,
                   executive_text, defense_emotion, judge_emotion, user_worry,
                   backend_failed, conciergeVars, butlerVars,
                   sharedVars, startupVars>>

\* Lines 344-361.
DefenseLine ==
    /\ dpc = "prosecutor"
    /\ LET r == RoleLine("DEFENSE", "defense", therapist_text,
                         "The defense attorney provides calm, CBT-based reassurance")
       IN  /\ defense_emotion' = r.emotion
           /\ AppendRole(r, "defense")
    /\ UNCHANGED <<agent_responses, overthinker_text, therapist_text,
                   executive_text, prosecutor_emotion, judge_emotion, user_worry,
                   backend_failed, conciergeVars, butlerVars,
                   sharedVars, startupVars>>

\* Lines 363-380.
JudgeLine ==
    /\ dpc = "defense"
    /\ LET r == RoleLine("JUDGE", "judge", executive_text,
                         "The judge delivers the final, actionable verdict")
       IN  /\ judge_emotion' = r.emotion
           /\ AppendRole(r, "returned")
    /\ UNCHANGED <<agent_responses, overthinker_text, therapist_text,
                   executive_text, prosecutor_emotion, defense_emotion, user_worry,
                   backend_failed, conciergeVars, butlerVars,
                   sharedVars, startupVars>>

DialogueNext == ConvertTexts \/ ProsecutorLine \/ DefenseLine \/ JudgeLine

SpecDialogue == DialogueInit /\ [][DialogueNext]_vars

(***************************************************************************)
(* Several process_worry calls in progress on the one WorryButler the      *)
(* endpoint shares (src/api.py:104 and 1119), one agent call per step, the *)
(* steps of different calls interleaved.  The locals of process_worry live *)
(* in the frame of each call; the agents and their attributes are shared.  *)
(***************************************************************************)
NumRequests == 2

RequestIds == 1..NumRequests

\* Each request has its own worry.
RequestWorries == <<BenignWorry, SafetyWorry, <<>>>>

RequestWorry(r) == RequestWorries[((r - 1) % Len(RequestWorries)) + 1]

SharedResponses ==
    {Response(TRUE, t, <<>>) : t \in {<<"text 1">>, <<"text 2">>}} \cup Failures

\* The place of process_worry after each stage, in the order of Agents.
StagePlaces == <<"overthinker", "therapist", "returned">>

\* The frame of a process_worry call that has not invoked an agent yet; seen
\* are the completions of the backend the call got so far.
StartFrame(worry) ==
    [worry |-> worry, bpc |-> "start", locals |-> <<>>, seen |-> <<>>,
     result |-> NoResult, error |-> NoError]

\* worry_butler.py:90-148 for stage i of the call with frame f: the agent, of
\* the given provider, gets the completion resp.
FrameStep(f, i, provider, resp) ==
    LET pm == process_message(provider, resp)
        ls == put(f.locals, StageVars[i], pm.text)
        ex == Except(f.worry, f.locals, pm.error)
    IN  IF pm.raised
        THEN [f EXCEPT !.bpc = ex.bpc, !.result = ex.result, !.error = ex.error,
                       !.seen = Append(@, resp)]
        ELSE [f EXCEPT !.bpc = StagePlaces[i], !.locals = ls,
                       !.seen = Append(@, resp),
                       !.result = IF StagePlaces[i] = "returned"
                                  THEN CompileResult(f.worry, ls) ELSE @]

\* Faulty variant: an agent whose backend failed switches to the local backend.
provider_after_call_fallback(provider, resp) ==
    IF resp.ok THEN provider ELSE "ollama"

\* The agent's provider attribute after process_message: base_agent.py:145-237
\* and the three agents' methods assign no attribute of self.
provider_after_call(provider, resp) == provider

SharedInit ==
    /\ use_openai \in BOOLEAN
    /\ use_ollama \in BOOLEAN
    /\ b_provider = ChooseProvider(use_openai, use_ollama)
    /\ agent_provider =
          [a \in {Agents[i] : i \in 1..Len(Agents)} |->
              ChooseProvider(use_openai, use_ollama)]
    /\ requests = [r \in RequestIds |-> StartFrame(RequestWorry(r))]
    /\ user_worry = <<>>
    /\ backend_failed = FALSE
    /\ bpc = "off"
    /\ locals = <<>>
    /\ agent_calls = <<>>
    /\ b_result = NoResult
    /\ b_partial = NoPartial
    /\ b_error = NoError
    /\ ConciergeIdle
    /\ DialogueIdle
    /\ StartupIdle

\* Stage i of request r.
RequestStep(r, i, from) ==
    /\ requests[r].bpc = from
    /\ \E resp \in SharedResponses :
          /\ requests' = [requests EXCEPT
                             ![r] = FrameStep(@, i, agent_provider[Agents[i]], resp)]
          /\ agent_provider' = [agent_provider EXCEPT
                                   ![Agents[i]] = provider_after_call(@, resp)]
          /\ backend_failed' = (backend_failed \/ ~resp.ok)
    /\ UNCHANGED <<user_worry, use_openai, use_ollama, b_provider, bpc, locals,
                   agent_calls, b_result, b_partial, b_error, conciergeVars,
                   dialogueVars, startupVars>>

\* Line 93.
RequestOverthink == \E r \in RequestIds : RequestStep(r, 1, "start")

\* Lines 97-99.
RequestTherapize == \E r \in RequestIds : RequestStep(r, 2, "overthinker")

\* Lines 103-121.
RequestSummarize == \E r \in RequestIds : RequestStep(r, 3, "therapist")

SharedNext == RequestOverthink \/ RequestTherapize \/ RequestSummarize

SpecShared == SharedInit /\ [][SharedNext]_vars

(***************************************************************************)
(* Start-up of the two programs: main() of src/main.py and the module code *)
(* of src/api.py.  Both choose the provider flags, read the environment    *)
(* and call WorryButler(...).  The configuration is valid: the chosen      *)
(* backend's package is installed, and a key is there when openai is used. *)
(***************************************************************************)
EntryPoints == {"main", "api"}

\* os.getenv gives None for a variable that is not set.
Unset == "<unset>"

OpenAIKeys == {Unset, "sk-key"}

\* What the user types at the provider question of main, stripped.
Choices == {"1", "2", "", "3"}

EnvModels == {Unset, "llama3.1:8b", "mistral"}

EnvBaseUrls == {Unset, "http://ollama:11434"}

\* os.getenv(name, default).
getenv(value, default) == IF value = Unset THEN default ELSE value

\* The parameters of WorryButler.__init__ (worry_butler.py:25), self apart.
InitParams == {"use_openai", "use_ollama", "ollama_model", "ollama_base_url"}

\* The call WorryButler(**kw): a keyword that names no parameter of __init__
\* is a TypeError; otherwise lines 35-65 run, with the defaults of line 25.
WorryButlerNew(kw) ==
    IF DOMAIN kw \subseteq InitParams
    THEN LET openai == dict_get(kw, "use_openai", FALSE)
             ollama == dict_get(kw, "use_ollama", TRUE)
         IN  Returns([use_openai |-> openai, use_ollama |-> ollama,
                      provider |-> ChooseProvider(openai, ollama)])
    ELSE Raises("TypeError")

StartupInit ==
    /\ entry \in EntryPoints
    /\ spc = "start"
    /\ openai_key \in OpenAIKeys
    /\ choice \in (IF entry = "main" THEN Choices ELSE {""})
    /\ env_model \in EnvModels
    /\ env_base_url \in EnvBaseUrls
    /\ kwargs = <<>>
    /\ s_error = ""
    /\ user_worry = <<>>
    /\ backend_failed = FALSE
    /\ ConciergeIdle
    /\ ButlerIdle
    /\ DialogueIdle
    /\ SharedIdle

\* main.py:29-47 and api.py:83-95: the provider flags.
SelectProvider ==
    /\ spc = "start"
    /\ LET openai == IF entry = "main"
                     THEN openai_key # Unset /\ choice = "2"
                     ELSE openai_key # Unset
       IN  kwargs' = [use_openai |-> openai, use_ollama |-> ~openai]
    /\ spc' = "selected"
    /\ UNCHANGED <<entry, openai_key, choice, env_model, env_base_url, s_error,
                   user_worry, backend_failed, conciergeVars, butlerVars,
                   dialogueVars, sharedVars>>

\* The keyword arguments of the call: main.py:57-63 and api.py:104-109.
CallKwargs ==
    LET named == [use_openai |-> kwargs.use_openai,
                  use_ollama |-> kwargs.use_ollama,
                  ollama_model |-> getenv(env_model, "llama3.1:8b"),
                  ollama_base_url |-> getenv(env_base_url, "http://localhost:11434")]
    IN  IF entry = "main" THEN put(named, "use_grok", FALSE) ELSE named

\* main.py:49-63 and api.py:97-109: the environment is read and WorryButler
\* is called inside the try.
Construct ==
    /\ spc = "selected"
    /\ kwargs' = CallKwargs
    /\ LET r == WorryButlerNew(CallKwargs)
       IN  IF r.raised
           THEN /\ spc' = "init_error"
                /\ s_error' = r.value
                /\ UNCHANGED <<use_openai, use_ollama, b_provider, agent_provider>>
           ELSE /\ spc' = "constructed"
                /\ use_openai' = r.value.use_openai
                /\ use_ollama' = r.value.use_ollama
                /\ b_provider' = r.value.provider
                /\ agent_provider' =
                      [a \in {Agents[i] : i \in 1..Len(Agents)} |-> r.value.provider]
                /\ UNCHANGED s_error
    /\ UNCHANGED <<entry, openai_key, choice, env_model, env_base_url,
                   user_worry, backend_failed, bpc, locals, agent_calls,
                   b_result, b_partial, b_error, conciergeVars, dialogueVars,
                   sharedVars>>

\* main.py:65-92: the information is printed and the loop asks for a worry;
\* api.py:111-116: the module goes on to define the endpoints.
Ready ==
    /\ spc = "constructed"
    /\ spc' = (IF entry = "main" THEN "loop" ELSE "serving")
    /\ UNCHANGED <<entry, openai_key, choice, env_model, env_base_url, kwargs,
                   s_error, user_worry, backend_failed, conciergeVars,
                   butlerVars, dialogueVars, sharedVars>>

\* main.py:135-142: the error is printed and main returns; api.py:118-124:
\* butler = None.
InitFailed ==
    /\ spc = "init_error"
    /\ spc' = (IF entry = "main" THEN "exited" ELSE "no_butler")
    /\ UNCHANGED <<entry, openai_key, choice, env_model, env_base_url, kwargs,
                   s_error, user_worry, backend_failed, conciergeVars,
                   butlerVars, dialogueVars, sharedVars>>

StartupNext == SelectProvider \/ Construct \/ Ready \/ InitFailed

SpecStartup == StartupInit /\ [][StartupNext]_vars

(***************************************************************************)
(* Properties of generate_all (under Spec) and of process_worry (under     *)
(* SpecButler).                                                            *)
(***************************************************************************)
Terminal == pc \in {"returned", "raised"}

VoiceKeySet == {<<VoiceKeys[i]>> : i \in 1..Len(VoiceKeys)}

PlainWrappers == {w \in Wrappers : w.kind \in {"plain", "padded"}}

\* The first output holds no JSON object: it does not parse and has no {...} region.
NoJsonObject(t) == ~json_loads(t).ok /\ ~re_search_braces(t).found

\* The repair call returned an output, and json.loads rejects it.
RepairDidNotParse ==
    /\ calls = 2
    /\ path # "provider"
    /\ ~json_loads(StripFence(strip(repaired))).ok

\* C1: a valid three-key record wrapped in a ``` fence, with or without a
\* language tag, gives the record that the unwrapped text gives, with no
\* repair call.
C1_FencedRecordAsUnwrapped ==
    \A w \in FenceWrappers, ms \in ValidMembers, pretty \in BOOLEAN :
        (pc # "idle" /\ raw = Wrap(w, Object(ms, pretty))) =>
            LET bare == Finish(FirstPass(Object(ms, pretty), user_worry))
            IN  /\ pc = "returned"
                /\ calls = 1
                /\ bare.next = "return"
                /\ data = bare.data

\* A fenced record whose executive voice itself holds a fence was returned.
C1_Witness ==
    /\ pc = "returned"
    /\ calls = 1
    /\ \E w \in FenceWrappers, ms \in ValidMembers, pretty \in BOOLEAN :
          /\ raw = Wrap(w, Object(ms, pretty))
          /\ data.m[<<"executive">>].s = <<"c", Tick, Tick, Tick>>

\* C2: a valid minified or pretty-printed three-key record of strings is
\* returned after exactly one provider call, its three fields equal to the
\* input values.
C2_ValidRecordRoundTrip ==
    \A w \in PlainWrappers, ms \in ValidMembers, pretty \in BOOLEAN :
        (pc # "idle" /\ raw = Wrap(w, Object(ms, pretty))) =>
            /\ pc = "returned"
            /\ calls = 1
            /\ data = BundleOf(ms, <<>>)

\* A pretty-printed record was returned by the direct parse.
C2_Witness ==
    /\ pc = "returned"
    /\ path = "direct"
    /\ \E ms \in ValidMembers : raw = Object(ms, TRUE)

\* C3: whatever generate_all returns has exactly the keys overthinker,
\* therapist and executive, each mapped to a string.
C3_ExactlyThreeKeys ==
    pc = "returned" =>
        /\ data.kind = "obj"
        /\ DOMAIN data.m = VoiceKeySet
        /\ \A k \in VoiceKeySet : data.m[k].kind = "str"

\* C4: whatever generate_all returns has three non-empty voice strings.
C4_VoicesNonEmpty ==
    pc = "returned" =>
        \A k \in VoiceKeySet :
            /\ k \in DOMAIN data.m
            /\ data.m[k].kind = "str"
            /\ data.m[k].s # <<>>

\* C5: one call of generate_all makes at most two provider calls: it is over
\* after the second, and waits for a repair output only after the first.
C5_AtMostTwoCalls ==
    /\ calls <= 2
    /\ (calls = 2 => Terminal)
    /\ (pc = "repair" => calls = 1)
    /\ (pc = "idle" => calls = 0)

\* A request that ended after its repair call.
C5_Witness == calls = 2 /\ pc = "returned" /\ path = "repaired"

\* C6: a refusal with no JSON object, for a worry that holds a safety keyword,
\* ends with the safe-redirect bundle and never with an error.
C6_SafeRedirectForUnsafeWorry ==
    ( /\ Terminal
      /\ path # "provider"
      /\ contains_any(text, refusal_markers)
      /\ NoJsonObject(text)
      /\ contains_any(user_worry, safety_keywords) ) =>
        /\ pc = "returned"
        /\ data = SafeFallback(user_worry)

PlainFirstOutput ==
    /\ openBraces(text) = {}
    /\ closeBraces(text) = {}
    /\ ~json_loads(text).ok
    /\ ~contains_any(text, refusal_markers)
    /\ ~contains_any(text, safety_keywords)

\* C8 as stated: a first output with no braces, no refusal marker and no safety
\* keyword, a worry with no safety keyword and a failed repair raise a
\* parse-failure error with a preview of the text.
C8_RaisesParseFailure ==
    ( /\ RepairDidNotParse
      /\ PlainFirstOutput
      /\ ~contains_any(user_worry, user_safety_keywords) ) =>
        /\ pc = "raised"
        /\ error.kind = "ValueError"
        /\ error.preview = Preview(text)

\* C8 amended: in that case generate_all returns the benign fallback bundle;
\* the parse-failure error with the preview is raised when the worry holds a
\* safety keyword.
C8_BenignFallbackUnlessUnsafeWorry ==
    (RepairDidNotParse /\ PlainFirstOutput) =>
        IF contains_any(user_worry, user_safety_keywords)
        THEN /\ pc = "raised"
             /\ error.kind = "ValueError"
             /\ error.what = "repair failed"
             /\ error.preview = Preview(text)
        ELSE /\ pc = "returned"
             /\ path = "benign_fallback"
             /\ error = NoError
             /\ data.m[<<"executive">>].s = BenignFallback(<<>>).m[<<"executive">>].s

\* Scenario D: "not json at all, no braces", twice, for a benign worry.
C8_Witness ==
    /\ raw = <<"not json at all, no braces">>
    /\ repaired = <<"not json at all, no braces">>
    /\ user_worry = BenignWorry
    /\ Terminal

\* C9: a request one of whose backend calls failed is never reported as a
\* completed workflow.
C9_FailureNeverCompletes ==
    backend_failed => (bpc # "returned" /\ ~b_result.workflow_completed)

ResultKeys == {"overthinker_response", "therapist_response", "executive_summary"}

Occurs(sub, t) ==
    \E i \in 0..(Len(t) - Len(sub)) : SubSeq(t, i + 1, i + Len(sub)) = sub

\* C11: when a stage of process_worry fails after earlier stages produced
\* text, the error that reaches the caller includes that partial text (the
\* overthinker and/or therapist output).
C11_ErrorCarriesPartialText ==
    (bpc = "raised" /\ DOMAIN locals # {}) =>
        \A k \in DOMAIN locals :
            locals[k] # <<>> => Occurs(locals[k], str_exception(b_error))

ParseFailure ==
    /\ pc = "raised"
    /\ error.kind = "ValueError"
    /\ error.what \in {"candidate failed", "repair failed"}

IsPrefix(p, t) == Len(p) <= Len(t) /\ SubSeq(t, 1, Len(p)) = p

\* C12: every parse-failure error of generate_all carries at most the first
\* 200 characters of the provider's text (trimmed, fences removed), plus a
\* one-character ellipsis when it was cut; it never holds a longer text whole.
C12_PreviewBounded ==
    ParseFailure =>
        LET t == StripFence(strip(raw))
            p == error.preview
            cut == SubSeq(p, 1, Len(p) - 1)
        IN  /\ charLen(p) <= PreviewLen + 1
            /\ IF charLen(t) <= PreviewLen
               THEN p = t
               ELSE /\ p[Len(p)] = Ellipsis
                    /\ charLen(cut) <= PreviewLen
                    /\ IsPrefix(cut, t)
                    /\ Occurs(cut, raw)
                    /\ ~Occurs(t, str_exception(error))
                    /\ ~Occurs(raw, str_exception(error))

\* A parse failure on a text longer than the preview, through either raise.
C12_Witness ==
    /\ ParseFailure
    /\ error.what = "candidate failed"
    /\ charLen(text) > PreviewLen
    /\ charLen(error.preview) = PreviewLen + 1

\* C13: every failure of generate_all to turn provider output into a valid
\* bundle (unparseable text, failed repair, missing key, non-string value, or
\* parsed JSON whose top level is no object) is raised as a ValueError with a
\* short diagnostic message.
C13_OneErrorKind ==
    (pc = "raised" /\ path # "provider") =>
        /\ error.kind = "ValueError"
        /\ charLen(error.preview) <= PreviewLen + 1

(***************************************************************************)
(* Properties of create_ace_attorney_dialogue (under SpecDialogue).        *)
(***************************************************************************)
ResponseKeys == <<"overthinker_response", "therapist_response", "executive_summary">>

\* The dict holds three str voice texts.
HoldsStrings ==
    \A i \in 1..3 :
        /\ ResponseKeys[i] \in DOMAIN agent_responses
        /\ agent_responses[ResponseKeys[i]].kind = "str"

Roles == <<"prosecutor", "defense", "judge">>

\* The emotions of a role's table one of whose keywords is in the text,
\* compared case-insensitively, by their place in the table.
Matching(t, character_type) ==
    {i \in 1..Len(emotion_keywords[character_type]) :
        \E j \in 1..Len(emotion_keywords[character_type][i].keywords) :
            str_in(emotion_keywords[character_type][i].keywords[j], str_lower(t))}

\* The role's step of the mapper is done.
Done(character_type) ==
    CASE character_type = "prosecutor" -> dpc \in {"prosecutor", "defense", "returned"}
      [] character_type = "defense" -> dpc \in {"defense", "returned"}
      [] OTHER -> dpc = "returned"

VoiceText(character_type) ==
    CASE character_type = "prosecutor" -> overthinker_text
      [] character_type = "defense" -> therapist_text
      [] OTHER -> executive_text

EmotionOf(character_type) ==
    CASE character_type = "prosecutor" -> prosecutor_emotion
      [] character_type = "defense" -> defense_emotion
      [] OTHER -> judge_emotion

\* C14: for every triple of voice texts create_ace_attorney_dialogue returns
\* exactly three lines, of PROSECUTOR, DEFENSE, JUDGE in that order, carrying
\* the overthinker, therapist and executive text; the order does not depend
\* on the texts.
C14_ThreeLinesInRoleOrder ==
    (dpc = "returned" /\ HoldsStrings) =>
        /\ Len(dialogue_sequence) = 3
        /\ [i \in 1..3 |-> dialogue_sequence[i].character]
               = <<"PROSECUTOR", "DEFENSE", "JUDGE">>
        /\ [i \in 1..3 |-> dialogue_sequence[i].text]
               = [i \in 1..3 |-> agent_responses[ResponseKeys[i]].s]

\* A dialogue returned for an empty overthinker text and a verdict that holds
\* keywords.
C14_Witness ==
    /\ dpc = "returned"
    /\ HoldsStrings
    /\ agent_responses["overthinker_response"].s = ""
    /\ agent_responses["executive_summary"].s = "You MUST decide"

\* C15: every dialogue entry carries a staging position, and the positions
\* of the three entries are left, right, center, whatever the texts.
C15_PositionsLeftRightCenter ==
    dpc = "returned" =>
        \A i \in 1..Len(dialogue_sequence) :
            /\ "position" \in DOMAIN dialogue_sequence[i]
            /\ dialogue_sequence[i].position = <<"left", "right", "center">>[i]

\* C16: a text with none of the keywords of the role's emotion table gets the
\* role's default: dramatic for prosecutor, calm for defense, neutral for judge.
C16_DefaultEmotion ==
    \A r \in 1..3 :
        (Done(Roles[r]) /\ Matching(VoiceText(Roles[r]), Roles[r]) = {}) =>
            EmotionOf(Roles[r]) = <<"dramatic", "calm", "neutral">>[r]

\* Three texts without keywords, none of them empty, were classified.
C16_Witness ==
    /\ dpc = "returned"
    /\ \A r \in 1..3 :
          VoiceText(Roles[r]) # "" /\ Matching(VoiceText(Roles[r]), Roles[r]) = {}

\* C17: a text with keywords of several emotions of the role's table gets the
\* emotion declared first among them; a prosecutor text that holds
\* "nightmare", in any case, is angry.
C17_FirstDeclaredEmotion ==
    /\ \A r \in 1..3 :
          (Done(Roles[r]) /\ Matching(VoiceText(Roles[r]), Roles[r]) # {}) =>
              EmotionOf(Roles[r]) =
                  emotion_keywords[Roles[r]]
                      [Min(Matching(VoiceText(Roles[r]), Roles[r]))].emotion
    /\ (Done("prosecutor") /\ str_in("nightmare", str_lower(overthinker_text)))
           => prosecutor_emotion = "angry"

\* Every role's text holds keywords of several emotions; the prosecutor's
\* holds NIGHTMARE after a keyword of a later emotion's.
C17_Witness ==
    /\ dpc = "returned"
    /\ \A r \in 1..3 : Cardinality(Matching(VoiceText(Roles[r]), Roles[r])) > 1
    /\ overthinker_text = "What a NIGHTMARE, maybe."

\* C19: for a dict of three str voice texts the mapper does not raise: every
\* role gets an emotion, a sprite and a background, whatever the texts hold.
C19_MapperNeverRaises ==
    HoldsStrings =>
        /\ dpc # "raised"
        /\ \A r \in 1..3 : Done(Roles[r]) =>
               /\ EmotionOf(Roles[r]) # ""
               /\ Len(dialogue_sequence) >= r
               /\ dialogue_sequence[r].sprite # ""
               /\ dialogue_sequence[r].background # ""

\* A dialogue returned for three empty texts.
C19_Witness ==
    /\ dpc = "returned"
    /\ HoldsStrings
    /\ \A r \in 1..3 : VoiceText(Roles[r]) = ""

\* C20: the text of each returned line equals the input voice text exactly,
\* and no step of the mapper changes the input dict.
C20_TextsUnaltered ==
    [][ /\ agent_responses' = agent_responses
        /\ (dpc' = "returned" /\ HoldsStrings') =>
               \A i \in 1..3 :
                   dialogue_sequence'[i].text = agent_responses[ResponseKeys[i]].s
      ]_vars

\* A dialogue returned for texts that lower-casing would change.
C20_Witness ==
    /\ dpc = "returned"
    /\ HoldsStrings
    /\ \A i \in 1..3 :
          /\ dialogue_sequence[i].text = agent_responses[ResponseKeys[i]].s
          /\ str_lower(dialogue_sequence[i].text) # dialogue_sequence[i].text

(***************************************************************************)
(* Further properties of generate_all (under Spec).                        *)
(***************************************************************************)
\* Neither the direct parse of the first output nor the parse of its {...}
\* region succeeds.
FirstOutputUnparseable ==
    /\ ~json_loads(text).ok
    /\ ~(re_search_braces(text).found /\ json_loads(re_search_braces(text).group).ok)

\* C22: when neither direct parsing nor substring extraction of the first
\* output yields a parseable record, generate_all makes exactly one repair
\* call before it synthesizes a fallback or raises: it never raises and never
\* returns a fallback with the first call alone.
C22_RepairBeforeFallbackOrRaise ==
    (Terminal /\ path # "provider" /\ FirstOutputUnparseable) => calls = 2

\* The further text of C23: it holds another closing brace.
TrailingBrace == <<Space, "note", "}">>

\* C23: a first output that is a valid three-key record followed by further
\* text with another closing brace yields that record: the first balanced
\* {...} region is extracted and parsed alone.
C23_FirstBalancedRegion ==
    \A ms \in ValidMembers, pretty \in BOOLEAN :
        (Terminal /\ raw = Object(ms, pretty) \o TrailingBrace) =>
            /\ pc = "returned"
            /\ data = BundleOf(ms, <<>>)

\* The prose around the record of C24.
ProseAround == Wrapper("prose", <<"Here is the JSON:", Space>>, <<Space, "Hope this helps">>)

\* C24: a repair output that is a valid three-key record surrounded by prose
\* is accepted and returned, as the same text would be as a first output.
C24_RepairOutputExtracted ==
    \A pretty \in BOOLEAN :
        (Terminal /\ calls = 2 /\ repaired = Wrap(ProseAround, Object(Abc, pretty))) =>
            /\ pc = "returned"
            /\ data = BundleOf(Abc, <<>>)

Fallbacks == {"safe_fallback", "benign_fallback"}

\* The voices of the returned bundle, in the order of VoiceKeys.
Voice(i) == data.m[<<VoiceKeys[i]>>].s

\* C25: a synthesized fallback bundle is a function of the worry alone,
\* whatever the provider outputs were, and embeds no more of the worry than
\* its first 140 characters (safe-redirect) or 100 characters (benign).
C25_FallbackFromWorryOnly ==
    (pc = "returned" /\ path \in Fallbacks) =>
        LET n == IF path = "safe_fallback" THEN SafeWorryLen ELSE BenignWorryLen
        IN  /\ data = (IF path = "safe_fallback" THEN SafeFallback(user_worry)
                       ELSE BenignFallback(user_worry))
            /\ \A i \in 1..Len(VoiceKeys) :
                  /\ charLen(user_worry) > n => ~Occurs(user_worry, Voice(i))
                  /\ \A j \in 1..Len(user_worry) :
                        Occurs(SubSeq(user_worry, 1, j), Voice(i)) =>
                            charLen(SubSeq(user_worry, 1, j)) <= n
                  /\ raw # <<>> => ~Occurs(raw, Voice(i))

\* The benign fallback for a worry longer than the prefix it embeds, after
\* two provider outputs.
C25_Witness ==
    /\ pc = "returned"
    /\ path = "benign_fallback"
    /\ user_worry = LongWorry
    /\ Occurs(takeChars(LongWorry, BenignWorryLen), Voice(1))

(***************************************************************************)
(* Further properties of process_worry (under SpecButler).                 *)
(***************************************************************************)
\* The arguments stage i is to be invoked with: the worry and the outputs of
\* the stages before it.
StageArgs(i) == <<user_worry>> \o [j \in 1..(i - 1) |-> locals[StageVars[j]]]

TableEmotions(character_type) ==
    {emotion_keywords[character_type][i].emotion :
        i \in 1..Len(emotion_keywords[character_type])}

\* The emotions a role's sprite table has sprites for.
SpriteEmotions(character_type) == DOMAIN sprites_of(character_type) \ {"default"}

\* The role's placeholder sprite (lines 163, 173, 183).
Placeholder(character_type) == sprites_of(character_type)["default"][1]

\* The role that speaks as a character of the dialogue.
RoleOf(character) ==
    CASE character = "PROSECUTOR" -> "prosecutor"
      [] character = "DEFENSE" -> "defense"
      [] OTHER -> "judge"

\* C27: for each role, every emotion analyze_text_emotion can return (a table
\* emotion or the role default) is a key of the role's sprite table, so no
\* line of the dialogue carries the role's placeholder sprite; select_sprite
\* gives the placeholder only for an emotion the table has no sprites for.
C27_NoPlaceholderSprite ==
    /\ \A r \in 1..3 :
          /\ TableEmotions(Roles[r]) \cup {default_emotion(Roles[r])}
                 \subseteq SpriteEmotions(Roles[r])
          /\ Done(Roles[r]) /\ EmotionOf(Roles[r]) # "" =>
                 EmotionOf(Roles[r]) \in SpriteEmotions(Roles[r])
          /\ \A e \in SpriteEmotions(Roles[r]) :
                 select_sprite(Roles[r], e) # Returns(Placeholder(Roles[r]))
          /\ select_sprite(Roles[r], "unknown") = Returns(Placeholder(Roles[r]))
    /\ \A i \in 1..Len(dialogue_sequence) :
          dialogue_sequence[i].sprite
              # Placeholder(RoleOf(dialogue_sequence[i].character))

\* A dialogue of three lines whose texts hold no keyword: each role got its
\* default emotion.
C27_Witness ==
    /\ dpc = "returned"
    /\ Len(dialogue_sequence) = 3
    /\ \A r \in 1..3 : /\ Matching(VoiceText(Roles[r]), Roles[r]) = {}
                        /\ EmotionOf(Roles[r]) = default_emotion(Roles[r])

\* The prosecutor's table without the keywords "the horror" and "absolute worst".
WithoutShadowed ==
    [i \in 1..Len(emotion_keywords["prosecutor"]) |->
        Emotion(emotion_keywords["prosecutor"][i].emotion,
                SelectSeq(emotion_keywords["prosecutor"][i].keywords,
                          LAMBDA k : k \notin {"the horror", "absolute worst"}))]

\* C29: a prosecutor text that holds "the horror" or "absolute worst" (listed
\* under dramatic) is classified angry, since the angry keywords "horror" and
\* "worst" are scanned earlier; the two keywords never decide the
\* classification: it is what the table without them gives.
C29_ShadowedKeywords ==
    Done("prosecutor") =>
        /\ (\/ str_in("the horror", str_lower(overthinker_text))
            \/ str_in("absolute worst", str_lower(overthinker_text)))
               => prosecutor_emotion = "angry"
        /\ LET m == first_match(WithoutShadowed, 1, str_lower(overthinker_text))
           IN  prosecutor_emotion = (IF m # "" THEN m ELSE default_emotion("prosecutor"))

\* The prosecutor spoke a text with "absolute worst" in capitals.
C29_Witness ==
    /\ Done("prosecutor")
    /\ overthinker_text = "The ABSOLUTE WORST"
    /\ prosecutor_emotion = "angry"

(***************************************************************************)
(* Properties of the shared WorryButler (under SpecShared).                *)
(***************************************************************************)
\* The frame a process_worry call has when it runs alone on a WorryButler of
\* the given provider and gets the completions resps, from the i-th on.
RECURSIVE Alone(_, _, _, _)
Alone(f, provider, resps, i) ==
    IF i > Len(resps) THEN f
    ELSE Alone(FrameStep(f, i, provider, resps[i]), provider, resps, i + 1)

\* C21: with several requests interleaved on the one WorryButler, each
\* request's result depends only on its own worry and its own provider
\* responses: its frame is the one it has when run alone, and no step
\* changes the state the requests share (the provider choice).
C21_RequestsIndependent ==
    /\ \A r \in RequestIds :
          requests[r] = Alone(StartFrame(RequestWorry(r)),
                              ChooseProvider(use_openai, use_ollama),
                              requests[r].seen, 1)
    /\ \A a \in DOMAIN agent_provider :
          agent_provider[a] = ChooseProvider(use_openai, use_ollama)

\* Two requests interleaved stage by stage: the first got a failure of the
\* overthinker's backend, then the second finished its chain.
C21_Witness ==
    /\ use_openai
    /\ requests[1].bpc = "raised"
    /\ Len(requests[1].seen) = 1
    /\ requests[2].bpc = "returned"
    /\ requests[2].result.voices["overthinker_response"] = <<"text 2">>

\* C28: after construction and after any sequence of process_worry calls the
\* three agents have the provider of WorryButler.provider, which is openai
\* exactly when use_openai was true and ollama otherwise; use_ollama has no
\* effect.
C28_OneProvider ==
    /\ b_provider = (IF use_openai THEN "openai" ELSE "ollama")
    /\ \A a \in DOMAIN agent_provider : agent_provider[a] = b_provider
    /\ DOMAIN agent_provider = {Agents[i] : i \in 1..Len(Agents)}

\* Both flags were set, and every call has ended, one of them by a raise.
C28_Witness ==
    /\ use_openai /\ use_ollama
    /\ \A r \in RequestIds : requests[r].bpc \in {"returned", "raised"}
    /\ \E r \in RequestIds : requests[r].bpc = "raised"
    /\ b_provider = "openai"

(***************************************************************************)
(* Property of the start-up (under SpecStartup).                           *)
(***************************************************************************)
\* C30: started with a valid configuration, with or without an OpenAI key
\* and with either provider choice, main() constructs the WorryButler and
\* reaches the worry prompt loop: it never takes the initialization-error
\* branch and returns.
C30_MainReachesPromptLoop ==
    entry = "main" => spc \notin {"init_error", "exited"}

====
